---- MODULE Spec2Model ----
(***************************************************************************)
(* Model of open_sea_v1/endpoints/endpoint_events.py: the events endpoint  *)
(* of the OpenSea wrapper.  A dataclass instance is built from typed       *)
(* filter parameters, validated in __post_init__, used to issue GET        *)
(* requests through the inherited client, and its retained response is     *)
(* parsed into a list of EventResponse objects.                            *)
(***************************************************************************)
EXTENDS Integers, Sequences, FiniteSets, TLC

VARIABLES
    self,           \* the dataclass fields of the instance (set by __init__)
    pc,             \* "new": nothing built; "raised": __post_init__ raised; "ready": the caller holds the instance
    raised,         \* outcome of the construction: "none", "ok", "TypeError", "ValueError"
    raised_by,      \* the validation method that raised ("" when none did)
    ran,            \* the validation groups entered by _validate_request_params, in order
    http_response,  \* self._http_response: Unset or the response retained by _get_request
    http_log,       \* every call made to the transport: <<[url, params]>>
    invocations,    \* number of _get_request invocations so far
    returned,       \* what the last _get_request invocation returned (Unset: none, or it raised)
    parses,         \* number of reads of parsed_http_response that returned a list
    parsed,         \* outcome of the last read of parsed_http_response: [exc, events]
    assigns         \* number of field assignments made on the instance after construction

vars == <<self, pc, raised, raised_by, ran, http_response, http_log, invocations, returned,
          parses, parsed, assigns>>

(***************************************************************************)
(* Bounds of the model.                                                    *)
(***************************************************************************)
MaxTime == 2        \* timestamps are the instants 1..MaxTime
MaxEvents == 2      \* longest asset_events array in a response
MaxGets == 2        \* _get_request invocations per instance
MaxParses == 2      \* successful reads of parsed_http_response per instance
MaxAssign == 1      \* field assignments per instance

(***************************************************************************)
(* Python values.  Every value is a record of the same shape; kind is the  *)
(* Python type.  A str-enum member is a str equal to its value.  A         *)
(* datetime is an instant t, naive or timezone-aware.                      *)
(***************************************************************************)
None == [kind |-> "NoneType", s |-> "", t |-> 0, aware |-> FALSE]
Str(x) == [kind |-> "str", s |-> x, t |-> 0, aware |-> FALSE]
Float0 == [kind |-> "float", s |-> "0.0", t |-> 0, aware |-> FALSE]
BoolTrue == [kind |-> "bool", s |-> "True", t |-> 0, aware |-> FALSE]
Datetime(i, a) == [kind |-> "datetime", s |-> "", t |-> i, aware |-> a]

\* class EventType(ExtendedStrEnum): the values EventType.list() holds
EventType == {"created", "successful", "cancelled", "bid_entered",
              "bid_withdrawn", "transfer", "approve"}

\* class AuctionType(ExtendedStrEnum): the values AuctionType.list() holds
AuctionType == {"english", "dutch", "min-price"}

\* isinstance(v, (str, EventType)) / isinstance(v, (str, AuctionType))
IsStr(v) == v.kind = "str"

\* isinstance(v, (type(None), datetime))
IsNoneOrDatetime(v) == v.kind \in {"NoneType", "datetime"}

\* bool(v): None is false; a datetime is always true
Truthy(v) ==
    CASE v.kind = "NoneType" -> FALSE
      [] v.kind = "str" -> v.s # ""
      [] v.kind = "float" -> FALSE
      [] OTHER -> TRUE

\* a == b for the values of the model (a naive and an aware datetime are unequal)
PyEq(a, b) == a = b

\* a < b between datetimes: "TypeError" for a naive against an aware one
PyLess(a, b) ==
    IF a.kind = "datetime" /\ b.kind = "datetime"
    THEN IF a.aware = b.aware
         THEN (IF a.t < b.t THEN "True" ELSE "False")
         ELSE "TypeError"
    ELSE "TypeError"

(***************************************************************************)
(* Validation.  Each method is an operator returning "ok" when the method  *)
(* returns and the name of the exception when it raises.                   *)
(***************************************************************************)
\* variant: the isinstance test is missing, so every bad value is a ValueError
validate_param_event_type_NoTypeCheck(o) ==
    IF ~IsStr(o.event_type) \/ o.event_type.s \notin EventType THEN "ValueError"
    ELSE "ok"

validate_param_event_type(o) ==
    IF ~IsStr(o.event_type) THEN "TypeError"
    ELSE IF o.event_type.s \notin EventType THEN "ValueError"
    ELSE "ok"

\* variant: the early return for None is missing
validate_param_auction_type_NoneRejected(o) ==
    IF ~IsStr(o.auction_type) THEN "TypeError"
    ELSE IF o.auction_type.s \notin AuctionType THEN "ValueError"
    ELSE "ok"

\* variant: the membership test is missing, so any string is accepted
validate_param_auction_type_AnyString(o) ==
    IF o.auction_type = None THEN "ok"
    ELSE IF ~IsStr(o.auction_type) THEN "TypeError"
    ELSE "ok"

validate_param_auction_type(o) ==
    IF o.auction_type = None THEN "ok"
    ELSE IF ~IsStr(o.auction_type) THEN "TypeError"
    ELSE IF o.auction_type.s \notin AuctionType THEN "ValueError"
    ELSE "ok"

validate_param_occurred_before(o) ==
    IF ~IsNoneOrDatetime(o.occurred_before) THEN "TypeError" ELSE "ok"

\* variant: occurred_after is not type-checked
validate_param_occurred_after_Skipped(o) == "ok"

validate_param_occurred_after(o) ==
    IF ~IsNoneOrDatetime(o.occurred_after) THEN "TypeError" ELSE "ok"

assert_param_occurred_before_after_cannot_be_same_value(o) ==
    IF PyEq(o.occurred_after, o.occurred_before) THEN "ValueError" ELSE "ok"

\* variant: the comparison is written the other way round
assert_param_occurred_before_cannot_be_higher_Reversed(o) ==
    LET lt == PyLess(o.occurred_before, o.occurred_after)
    IN  CASE lt = "TypeError" -> "TypeError"
          [] lt = "False" -> "ValueError"
          [] OTHER -> "ok"

assert_param_occurred_before_cannot_be_higher_than_occurred_after(o) ==
    LET lt == PyLess(o.occurred_after, o.occurred_before)
    IN  CASE lt = "TypeError" -> "TypeError"
          [] lt = "False" -> "ValueError"
          [] OTHER -> "ok"

validate_params_occurred_before_and_occurred_after(o) ==
    LET b == validate_param_occurred_before(o)
        a == validate_param_occurred_after(o)
        same == assert_param_occurred_before_after_cannot_be_same_value(o)
        order == assert_param_occurred_before_cannot_be_higher_than_occurred_after(o)
    IN  IF b # "ok" THEN [exc |-> b, by |-> "validate_param_occurred_before"]
        ELSE IF a # "ok" THEN [exc |-> a, by |-> "validate_param_occurred_after"]
        ELSE IF Truthy(o.occurred_after) /\ Truthy(o.occurred_before)
             THEN IF same # "ok"
                  THEN [exc |-> same, by |-> "assert_cannot_be_same_value"]
                  ELSE IF order # "ok"
                       THEN [exc |-> order, by |-> "assert_cannot_be_higher"]
                       ELSE [exc |-> "ok", by |-> ""]
             ELSE [exc |-> "ok", by |-> ""]

\* variant: the event-type group is called before the auction-type group
validate_request_params_EventFirst(o) ==
    LET a == validate_param_auction_type(o)
        e == validate_param_event_type(o)
        t == validate_params_occurred_before_and_occurred_after(o)
    IN  IF e # "ok"
        THEN [ran |-> <<"event_type">>, exc |-> e,
              by |-> "validate_param_event_type"]
        ELSE IF a # "ok"
        THEN [ran |-> <<"event_type", "auction_type">>, exc |-> a,
              by |-> "validate_param_auction_type"]
        ELSE [ran |-> <<"event_type", "auction_type", "occurred">>, exc |-> t.exc,
              by |-> t.by]

\* _validate_request_params: the three groups in call order; an exception
\* raised by a group propagates, so the groups after it are not entered.
\* Result: the groups entered, the outcome, and the method that raised.
validate_request_params(o) ==
    LET a == validate_param_auction_type(o)
        e == validate_param_event_type(o)
        t == validate_params_occurred_before_and_occurred_after(o)
    IN  IF a # "ok"
        THEN [ran |-> <<"auction_type">>, exc |-> a,
              by |-> "validate_param_auction_type"]
        ELSE IF e # "ok"
        THEN [ran |-> <<"auction_type", "event_type">>, exc |-> e,
              by |-> "validate_param_event_type"]
        ELSE [ran |-> <<"auction_type", "event_type", "occurred">>, exc |-> t.exc,
              by |-> t.by]

\* variant: __post_init__ does not validate
post_init_NoValidation(o) == [ran |-> <<>>, exc |-> "ok", by |-> ""]

\* __post_init__: runs the validation on the freshly assigned fields
post_init(o) == validate_request_params(o)

(***************************************************************************)
(* The instance.                                                           *)
(***************************************************************************)
\* sample_contract of the tests
sample_contract == Str("0xb47e3cd837ddf8e4c57f05d70ab865de6e193bbb")

\* the dataclass fields with their declared defaults
Defaults ==
    [client_params |-> [offset |-> 0, limit |-> 1],
     asset_contract_address |-> None,
     token_id |-> None,
     collection_slug |-> None,
     account_address |-> None,
     occurred_before |-> None,
     occurred_after |-> None,
     event_type |-> None,
     auction_type |-> None,
     only_opensea |-> FALSE]

Unset == [kind |-> "unset", asset_events |-> [kind |-> "null", items |-> <<>>]]
NotParsed == [exc |-> "none", events |-> <<>>]

Init ==
    /\ self = Defaults
    /\ pc = "new"
    /\ raised = "none"
    /\ raised_by = ""
    /\ ran = <<>>
    /\ http_response = Unset
    /\ http_log = <<>>
    /\ invocations = 0
    /\ returned = Unset
    /\ parses = 0
    /\ parsed = NotParsed
    /\ assigns = 0

\* _EventsEndpoint(**kwargs): the generated __init__ assigns the fields, then
\* __post_init__ validates; the caller gets the instance only if nothing raised.
Construct(o) ==
    /\ pc = "new"
    /\ self' = o
    /\ LET r == post_init(o)
       IN  /\ ran' = r.ran
           /\ raised' = r.exc
           /\ raised_by' = r.by
           /\ pc' = IF r.exc = "ok" THEN "ready" ELSE "raised"
    /\ UNCHANGED <<http_response, http_log, invocations, returned, parses, parsed, assigns>>

(***************************************************************************)
(* Inputs of the validation specification: every kind of value for the     *)
(* four validated fields, the other fields at their defaults.              *)
(***************************************************************************)
Strings == {Str(x) : x \in EventType \cup AuctionType \cup {"randomstr"}}
Datetimes == {Datetime(i, a) : i \in 1..MaxTime, a \in BOOLEAN}
TypeInputs == {None, Float0, BoolTrue} \cup Strings
TimeInputs == {None, BoolTrue, Str("2021-08-01")} \cup Datetimes

ConstructAny ==
    \E e \in TypeInputs, a \in TypeInputs, b \in TimeInputs, f \in TimeInputs :
        Construct([Defaults EXCEPT !.asset_contract_address = sample_contract,
                                   !.event_type = e, !.auction_type = a,
                                   !.occurred_before = b, !.occurred_after = f])

NextValidation == ConstructAny

SpecValidation == Init /\ [][NextValidation]_vars

(***************************************************************************)
(* The request.                                                            *)
(***************************************************************************)
\* property url: OpenseaApiEndpoints.EVENTS.value, an opaque fixed string
url == "OpenseaApiEndpoints.EVENTS"

\* variant: token_id and collection_slug are bound to each other's field
request_params_Swapped(o) ==
    [offset |-> o.client_params.offset,
     limit |-> o.client_params.limit,
     asset_contract_address |-> o.asset_contract_address,
     event_type |-> o.event_type,
     only_opensea |-> o.only_opensea,
     collection_slug |-> o.token_id,
     token_id |-> o.collection_slug,
     account_address |-> o.account_address,
     auction_type |-> o.auction_type,
     occurred_before |-> o.occurred_before,
     occurred_after |-> o.occurred_after]

\* the params dict _get_request builds from the fields
request_params(o) ==
    [offset |-> o.client_params.offset,
     limit |-> o.client_params.limit,
     asset_contract_address |-> o.asset_contract_address,
     event_type |-> o.event_type,
     only_opensea |-> o.only_opensea,
     collection_slug |-> o.collection_slug,
     token_id |-> o.token_id,
     account_address |-> o.account_address,
     auction_type |-> o.auction_type,
     occurred_before |-> o.occurred_before,
     occurred_after |-> o.occurred_after]

\* BaseOpenSeaClient._get_request(params=...): one GET to the endpoint's url
perform_get(params) == [url |-> url, params |-> params]

\* the transport calls one invocation of _get_request makes
get_request_calls(o) == <<perform_get(request_params(o))>>

\* self._http_response = <what the transport returned>
retain(previous, response) == response

(***************************************************************************)
(* Responses.  A response body is invalid JSON, a JSON array, a JSON       *)
(* object without the asset_events key, or a JSON object with it.  The     *)
(* value under the key is null, a number, an array of event objects, an    *)
(* object (iterating it yields its keys) or a string (its characters).     *)
(***************************************************************************)
JsonEvent(i) == [kind |-> "object", id |-> i]
JsonString(x) == [kind |-> "string", id |-> x]
EventObjects == {JsonEvent("ev1"), JsonEvent("ev2")}

SeqsUpTo(S, n) == UNION {[1..k -> S] : k \in 0..n}

JsonValues ==
    {[kind |-> "null", items |-> <<>>], [kind |-> "number", items |-> <<>>]}
    \cup {[kind |-> "array", items |-> q] : q \in SeqsUpTo(EventObjects, MaxEvents)}
    \cup {[kind |-> "object", items |-> q] : q \in {<<>>, <<JsonString("id")>>}}
    \cup {[kind |-> "string", items |-> q] : q \in {<<>>, <<JsonString("x")>>}}

Responses ==
    {[kind |-> k, asset_events |-> [kind |-> "null", items |-> <<>>]] :
        k \in {"invalid_json", "json_array", "json_object_without_key"}}
    \cup {[kind |-> "json_object", asset_events |-> v] : v \in JsonValues}

\* the transport raised instead of returning
TransportError == [kind |-> "raised", asset_events |-> [kind |-> "null", items |-> <<>>]]

\* _get_request on an instance the caller holds; the transport answers with a
\* response of R or raises
GetRequest(R) ==
    /\ pc = "ready"
    /\ invocations < MaxGets
    /\ invocations' = invocations + 1
    /\ http_log' = http_log \o get_request_calls(self)
    /\ \E r \in R \cup {TransportError} :
         IF r = TransportError
         THEN /\ returned' = Unset
              /\ UNCHANGED http_response
         ELSE /\ returned' = r
              /\ http_response' = retain(http_response, r)
    /\ UNCHANGED <<self, pc, raised, raised_by, ran, parses, parsed, assigns>>

(***************************************************************************)
(* Parsing.                                                                *)
(***************************************************************************)
\* EventResponse(event): wraps an event object.  What it does with a value
\* that is no JSON object (a key or a character) is not fixed here: with
\* lenient it wraps it as well, otherwise it raises.
EventResponse(e, lenient) ==
    IF e.kind = "object" \/ lenient
    THEN [exc |-> "ok", record |-> [event |-> e.id]]
    ELSE [exc |-> "TypeError", record |-> [event |-> ""]]

\* variant: the events come out in reverse order
parsed_http_response_Reversed(resp, lenient) ==
    CASE resp.kind = "unset" -> [exc |-> "AttributeError", events |-> <<>>]
      [] resp.kind = "invalid_json" -> [exc |-> "JSONDecodeError", events |-> <<>>]
      [] resp.kind = "json_array" -> [exc |-> "TypeError", events |-> <<>>]
      [] resp.kind = "json_object_without_key" -> [exc |-> "KeyError", events |-> <<>>]
      [] OTHER ->
           LET events_json == resp.asset_events
               n == Len(events_json.items)
               built == [i \in 1..n |-> EventResponse(events_json.items[i], lenient)]
           IN  IF events_json.kind \in {"null", "number"}
               THEN [exc |-> "TypeError", events |-> <<>>]
               ELSE IF \E i \in 1..n : built[i].exc # "ok"
               THEN [exc |-> "TypeError", events |-> <<>>]
               ELSE [exc |-> "ok", events |-> [i \in 1..n |-> built[n + 1 - i].record]]

\* variant: with no response retained the property returns an empty list
parsed_http_response_UnsetAsEmpty(resp, lenient) ==
    CASE resp.kind = "unset" -> [exc |-> "ok", events |-> <<>>]
      [] resp.kind = "invalid_json" -> [exc |-> "JSONDecodeError", events |-> <<>>]
      [] resp.kind = "json_array" -> [exc |-> "TypeError", events |-> <<>>]
      [] resp.kind = "json_object_without_key" -> [exc |-> "KeyError", events |-> <<>>]
      [] OTHER ->
           LET events_json == resp.asset_events
               n == Len(events_json.items)
               built == [i \in 1..n |-> EventResponse(events_json.items[i], lenient)]
           IN  IF events_json.kind \in {"null", "number"}
               THEN [exc |-> "TypeError", events |-> <<>>]
               ELSE IF \E i \in 1..n : built[i].exc # "ok"
               THEN [exc |-> "TypeError", events |-> <<>>]
               ELSE [exc |-> "ok", events |-> [i \in 1..n |-> built[i].record]]

\* property parsed_http_response
parsed_http_response(resp, lenient) ==
    CASE resp.kind = "unset" -> [exc |-> "AttributeError", events |-> <<>>]
      [] resp.kind = "invalid_json" -> [exc |-> "JSONDecodeError", events |-> <<>>]
      [] resp.kind = "json_array" -> [exc |-> "TypeError", events |-> <<>>]
      [] resp.kind = "json_object_without_key" -> [exc |-> "KeyError", events |-> <<>>]
      [] OTHER ->
           LET events_json == resp.asset_events
               n == Len(events_json.items)
               built == [i \in 1..n |-> EventResponse(events_json.items[i], lenient)]
           IN  IF events_json.kind \in {"null", "number"}
               THEN [exc |-> "TypeError", events |-> <<>>]
               ELSE IF \E i \in 1..n : built[i].exc # "ok"
               THEN [exc |-> "TypeError", events |-> <<>>]
               ELSE [exc |-> "ok", events |-> [i \in 1..n |-> built[i].record]]

\* a read of parsed_http_response on an instance the caller holds
Parse ==
    /\ pc = "ready"
    /\ parses < MaxParses
    /\ \E lenient \in BOOLEAN : parsed' = parsed_http_response(http_response, lenient)
    /\ parses' = IF parsed'.exc = "ok" THEN parses + 1 ELSE parses
    /\ UNCHANGED <<self, pc, raised, raised_by, ran, http_response, http_log,
                   invocations, returned, assigns>>

(***************************************************************************)
(* Field assignment: the dataclass is not frozen, so instance.field = v    *)
(* is accepted and runs no validation.                                     *)
(***************************************************************************)
AssignableFields == {"event_type", "auction_type", "occurred_before", "occurred_after"}
AssignValues == {None, Str("randomstr"), Datetime(1, FALSE)}

SetField ==
    /\ pc = "ready"
    /\ assigns < MaxAssign
    /\ assigns' = assigns + 1
    /\ \E f \in AssignableFields, v \in AssignValues : self' = [self EXCEPT ![f] = v]
    /\ UNCHANGED <<pc, raised, raised_by, ran, http_response, http_log, invocations,
                   returned, parses, parsed>>

(***************************************************************************)
(* The lifecycle specification: one instance, built from a sample of the   *)
(* inputs, then any interleaving of requests and field assignments.        *)
(***************************************************************************)
SampleTypes == {None, Float0, Str("successful"), Str("dutch"), Str("randomstr")}
SampleTimes == {None, BoolTrue} \cup {Datetime(i, FALSE) : i \in 1..MaxTime}
SampleResponses ==
    {[kind |-> "json_object",
      asset_events |-> [kind |-> "array", items |-> <<JsonEvent("ev1")>>]],
     [kind |-> "invalid_json", asset_events |-> [kind |-> "null", items |-> <<>>]]}

ConstructSample ==
    \E e \in SampleTypes, a \in SampleTypes, b \in SampleTimes, f \in SampleTimes,
       only \in BOOLEAN :
        Construct([client_params |-> [offset |-> 0, limit |-> 5],
                   asset_contract_address |-> sample_contract,
                   token_id |-> Str("1"),
                   collection_slug |-> Str("cryptopunks"),
                   account_address |-> None,
                   occurred_before |-> b,
                   occurred_after |-> f,
                   event_type |-> e,
                   auction_type |-> a,
                   only_opensea |-> only])

Next == ConstructSample \/ SetField \/ GetRequest(SampleResponses)

Spec == Init /\ [][Next]_vars

(***************************************************************************)
(* The response specification: an instance built with the tests'           *)
(* events_default_kwargs, then requests answered by any response and       *)
(* reads of parsed_http_response, in any order.                            *)
(***************************************************************************)
ConstructDefault ==
    Construct([Defaults EXCEPT !.asset_contract_address = sample_contract,
                               !.event_type = Str("successful")])

NextResponse == ConstructDefault \/ GetRequest(Responses) \/ Parse

SpecResponse == Init /\ [][NextResponse]_vars

(***************************************************************************)
(* Vocabulary of the properties, written out independently of the          *)
(* operators above.                                                        *)
(***************************************************************************)
SevenEventTypes == {"created", "successful", "cancelled", "bid_entered",
                    "bid_withdrawn", "transfer", "approve"}
ThreeAuctionTypes == {"english", "dutch", "min-price"}

Absent(v) == v.kind = "NoneType"
IsTimestamp(v) == v.kind = "datetime"
NotATimestamp(v) == ~Absent(v) /\ ~IsTimestamp(v)
\* both naive or both aware: only then is one instant earlier than the other
Comparable(a, b) == IsTimestamp(a) /\ IsTimestamp(b) /\ a.aware = b.aware

EventTypeInSet(v) == v.kind = "str" /\ v.s \in SevenEventTypes
AuctionTypeAllowed(v) == Absent(v) \/ (v.kind = "str" /\ v.s \in ThreeAuctionTypes)
BoundsAllowed(before, after) ==
    /\ Absent(before) \/ IsTimestamp(before)
    /\ Absent(after) \/ IsTimestamp(after)
    /\ (IsTimestamp(before) /\ IsTimestamp(after))
          => (Comparable(after, before) /\ after.t < before.t)

Built == pc # "new"
Failed == pc = "raised" /\ raised \in {"TypeError", "ValueError"}
Succeeded == pc = "ready" /\ raised = "ok"
AllGroups == <<"auction_type", "event_type", "occurred">>

(***************************************************************************)
(* C1                                                                      *)
(***************************************************************************)
\* C1 as stated: whenever event_type is not one of the seven values the
\* construction fails, with a TypeError if it is None or not a string and
\* with a ValueError if it is a string outside the set; a value in the set
\* passes the event-type check.
C1_AsStated ==
    Built =>
        /\ ~(self.event_type.kind = "str") => (Failed /\ raised = "TypeError")
        /\ (self.event_type.kind = "str" /\ self.event_type.s \notin SevenEventTypes)
              => (Failed /\ raised = "ValueError")
        /\ EventTypeInSet(self.event_type) => raised_by # "validate_param_event_type"

\* C1 amended: an event_type outside the seven values always makes the
\* construction fail; the failure is the event-type check's TypeError (None
\* or not a string) or ValueError (a string outside the set) provided the
\* auction-type check, which runs first, passes; a value in the set passes
\* the event-type check, so the third group is entered.
C1_EventTypeCheck ==
    Built =>
        /\ ~EventTypeInSet(self.event_type) => Failed
        /\ (AuctionTypeAllowed(self.auction_type) /\ ~(self.event_type.kind = "str"))
              => (raised = "TypeError" /\ raised_by = "validate_param_event_type")
        /\ (AuctionTypeAllowed(self.auction_type) /\ self.event_type.kind = "str"
               /\ self.event_type.s \notin SevenEventTypes)
              => (raised = "ValueError" /\ raised_by = "validate_param_event_type")
        /\ EventTypeInSet(self.event_type) => raised_by # "validate_param_event_type"
        /\ (AuctionTypeAllowed(self.auction_type) /\ EventTypeInSet(self.event_type))
              => ran = AllGroups

C1_Witness ==
    /\ Failed
    /\ self.event_type = None
    /\ self.auction_type = Str("dutch")
    /\ raised = "TypeError"
    /\ raised_by = "validate_param_event_type"

(***************************************************************************)
(* C2                                                                      *)
(***************************************************************************)
\* C2: with auction_type None or one of the three values and the other
\* parameters valid the construction succeeds; any other auction_type makes
\* it fail, with a TypeError if it is not a string and a ValueError if it is
\* a string outside the set.
C2_AuctionTypeCheck ==
    Built =>
        /\ (AuctionTypeAllowed(self.auction_type) /\ EventTypeInSet(self.event_type)
               /\ BoundsAllowed(self.occurred_before, self.occurred_after))
              => Succeeded
        /\ (~Absent(self.auction_type) /\ ~(self.auction_type.kind = "str"))
              => (Failed /\ raised = "TypeError")
        /\ (self.auction_type.kind = "str" /\ self.auction_type.s \notin ThreeAuctionTypes)
              => (Failed /\ raised = "ValueError")

C2_Witness ==
    /\ Failed
    /\ self.auction_type = Str("randomstr")
    /\ self.event_type = None
    /\ raised = "ValueError"

(***************************************************************************)
(* C3                                                                      *)
(***************************************************************************)
\* C3 as stated: with both bounds timestamps, the construction fails with a
\* ValueError when occurred_after is at or after occurred_before and
\* succeeds, the other parameters being valid, when it is strictly earlier;
\* with at most one bound present it succeeds.
C3_AsStated ==
    Built =>
        /\ (Comparable(self.occurred_after, self.occurred_before)
               /\ self.occurred_after.t >= self.occurred_before.t)
              => (Failed /\ raised = "ValueError")
        /\ (Comparable(self.occurred_after, self.occurred_before)
               /\ self.occurred_after.t < self.occurred_before.t
               /\ AuctionTypeAllowed(self.auction_type) /\ EventTypeInSet(self.event_type))
              => Succeeded
        /\ ((Absent(self.occurred_after) \/ Absent(self.occurred_before))
               /\ ~NotATimestamp(self.occurred_after) /\ ~NotATimestamp(self.occurred_before)
               /\ AuctionTypeAllowed(self.auction_type) /\ EventTypeInSet(self.event_type))
              => Succeeded

\* C3 amended: with both bounds timestamps of the same kind (both naive or
\* both aware), occurred_after at or after occurred_before always makes the
\* construction fail, and with the ValueError of the cross-field check
\* provided the auction-type and event-type checks pass; strictly earlier
\* succeeds when those checks pass; with at most one bound present (the
\* other a timestamp or absent too) it succeeds when those checks pass.  A
\* naive bound against an aware one raises a TypeError in the comparison.
C3_BoundsOrder ==
    Built =>
        /\ (Comparable(self.occurred_after, self.occurred_before)
               /\ self.occurred_after.t >= self.occurred_before.t)
              => Failed
        /\ (AuctionTypeAllowed(self.auction_type) /\ EventTypeInSet(self.event_type)) =>
              /\ (Comparable(self.occurred_after, self.occurred_before)
                     /\ self.occurred_after.t = self.occurred_before.t)
                    => (raised = "ValueError" /\ raised_by = "assert_cannot_be_same_value")
              /\ (Comparable(self.occurred_after, self.occurred_before)
                     /\ self.occurred_after.t > self.occurred_before.t)
                    => (raised = "ValueError" /\ raised_by = "assert_cannot_be_higher")
              /\ (Comparable(self.occurred_after, self.occurred_before)
                     /\ self.occurred_after.t < self.occurred_before.t)
                    => Succeeded
              /\ ((Absent(self.occurred_after) \/ Absent(self.occurred_before))
                     /\ ~NotATimestamp(self.occurred_after)
                     /\ ~NotATimestamp(self.occurred_before))
                    => Succeeded
              /\ (IsTimestamp(self.occurred_after) /\ IsTimestamp(self.occurred_before)
                     /\ ~Comparable(self.occurred_after, self.occurred_before))
                    => (raised = "TypeError" /\ raised_by = "assert_cannot_be_higher")

C3_Witness ==
    /\ Failed
    /\ raised = "ValueError"
    /\ raised_by = "assert_cannot_be_higher"
    /\ self.occurred_before = Datetime(1, FALSE)
    /\ self.occurred_after = Datetime(2, FALSE)

(***************************************************************************)
(* C4                                                                      *)
(***************************************************************************)
\* C4 as stated: a bound that is present and not a timestamp makes the
\* construction fail with a TypeError, never a ValueError, also when the
\* other bound is a timestamp.
C4_AsStated ==
    (Built /\ (NotATimestamp(self.occurred_before) \/ NotATimestamp(self.occurred_after)))
        => (Failed /\ raised = "TypeError")

\* C4 amended: such a bound always makes the construction fail; provided the
\* auction-type and event-type checks pass, the failure is a TypeError,
\* raised by the type check of occurred_before if that bound is at fault and
\* else by the type check of occurred_after, before any comparison.
C4_BoundTypes ==
    (Built /\ (NotATimestamp(self.occurred_before) \/ NotATimestamp(self.occurred_after)))
        => /\ Failed
           /\ (AuctionTypeAllowed(self.auction_type) /\ EventTypeInSet(self.event_type))
                 => /\ raised = "TypeError"
                    /\ raised_by = IF NotATimestamp(self.occurred_before)
                                   THEN "validate_param_occurred_before"
                                   ELSE "validate_param_occurred_after"

C4_Witness ==
    /\ Failed
    /\ raised = "TypeError"
    /\ raised_by = "validate_param_occurred_after"
    /\ self.occurred_before = Datetime(1, FALSE)
    /\ self.occurred_after = BoolTrue

(***************************************************************************)
(* C9                                                                      *)
(***************************************************************************)
\* C9 as stated: the three groups run in the order auction-type, event-type,
\* occurred-before/after, and all three run on every construction.
C9_AsStated == Built => ran = AllGroups

\* C9 amended: the groups are entered in the order auction-type, event-type,
\* occurred-before/after, and the first group that fails ends the whole
\* validation: the event-type group is entered only if the auction-type
\* check passes, the third only if both pass.  Inside the third group the
\* first failing check ends the group.
C9_GroupOrder ==
    Built =>
        /\ ran \in {SubSeq(AllGroups, 1, k) : k \in 1..3}
        /\ (Len(ran) = 1) <=> ~AuctionTypeAllowed(self.auction_type)
        /\ (Len(ran) = 2) <=> (AuctionTypeAllowed(self.auction_type)
                                  /\ ~EventTypeInSet(self.event_type))
        /\ Len(ran) < 3 => Failed
        /\ Len(ran) = 1 => raised_by = "validate_param_auction_type"
        /\ Len(ran) = 2 => raised_by = "validate_param_event_type"
        /\ (Len(ran) = 3 /\ NotATimestamp(self.occurred_before))
              => raised_by = "validate_param_occurred_before"
        /\ (Len(ran) = 3 /\ Comparable(self.occurred_after, self.occurred_before)
               /\ self.occurred_after.t = self.occurred_before.t)
              => raised_by = "assert_cannot_be_same_value"

C9_Witness ==
    /\ Failed
    /\ ran = <<"auction_type">>
    /\ ~EventTypeInSet(self.event_type)
    /\ NotATimestamp(self.occurred_before)

(***************************************************************************)
(* C5                                                                      *)
(***************************************************************************)
\* C5: validation runs at construction, before any network call: when the
\* construction fails with a TypeError or ValueError no HTTP call is made
\* for that query, and every HTTP call made was preceded by a validation
\* that ran all three groups and passed.
C5_FailFast ==
    /\ (raised \in {"TypeError", "ValueError"} \/ pc = "raised")
          => (Len(http_log) = 0 /\ invocations = 0)
    /\ (Len(http_log) > 0 \/ invocations > 0)
          => (raised = "ok" /\ ran = AllGroups)

C5_Witness ==
    /\ pc = "raised"
    /\ raised = "ValueError"
    /\ raised_by = "assert_cannot_be_same_value"
    /\ Len(http_log) = 0

(***************************************************************************)
(* C6                                                                      *)
(***************************************************************************)
ParamsAllowed(p) ==
    /\ EventTypeInSet(p.event_type)
    /\ AuctionTypeAllowed(p.auction_type)
    /\ BoundsAllowed(p.occurred_before, p.occurred_after)

\* C6 as stated: after any sequence of constructions, field assignments and
\* requests, every GET issued carries parameters that satisfy all the
\* validation invariants.
C6_AsStated == \A i \in 1..Len(http_log) : ParamsAllowed(http_log[i].params)

\* C6 amended: every GET issued by an instance none of whose fields has been
\* assigned since construction carries parameters that satisfy all the
\* validation invariants (the fields stay assignable, and an assignment is
\* not validated).
C6_ValidUntilAssigned ==
    assigns = 0 => \A i \in 1..Len(http_log) : ParamsAllowed(http_log[i].params)

C6_Witness ==
    /\ assigns = 0
    /\ Len(http_log) = 2
    /\ IsTimestamp(http_log[2].params.occurred_before)
    /\ IsTimestamp(http_log[2].params.occurred_after)
    /\ http_log[2].params.auction_type = Str("dutch")

(***************************************************************************)
(* C7                                                                      *)
(***************************************************************************)
ElevenKeys == {"offset", "limit", "asset_contract_address", "event_type",
               "only_opensea", "collection_slug", "token_id", "account_address",
               "auction_type", "occurred_before", "occurred_after"}

\* C7: every invocation of the request operation makes exactly one GET, to
\* the events URL, whose parameters are exactly the eleven keys, each bound
\* to the value the instance's field has at that moment (offset and limit
\* from client_params, an absent optional passed as None), and the response
\* the transport returns is the one retained on the instance.
C7_OneGetPerInvocation ==
    [][invocations' # invocations =>
         /\ invocations' = invocations + 1
         /\ Len(http_log') = Len(http_log) + 1
         /\ SubSeq(http_log', 1, Len(http_log)) = http_log
         /\ LET call == http_log'[Len(http_log')]
            IN  /\ call.url = "OpenseaApiEndpoints.EVENTS"
                /\ DOMAIN call.params = ElevenKeys
                /\ call.params.offset = self.client_params.offset
                /\ call.params.limit = self.client_params.limit
                /\ call.params.asset_contract_address = self.asset_contract_address
                /\ call.params.event_type = self.event_type
                /\ call.params.only_opensea = self.only_opensea
                /\ call.params.collection_slug = self.collection_slug
                /\ call.params.token_id = self.token_id
                /\ call.params.account_address = self.account_address
                /\ call.params.auction_type = self.auction_type
                /\ call.params.occurred_before = self.occurred_before
                /\ call.params.occurred_after = self.occurred_after
         /\ returned' # Unset => http_response' = returned'
         /\ returned' = Unset => http_response' = http_response
    ]_vars

C7_Witness ==
    /\ invocations = 2
    /\ Len(http_log) = 2
    /\ assigns = 1
    /\ http_log[1].params.event_type = Str("successful")
    /\ http_log[2].params.event_type = Str("randomstr")
    /\ http_log[2].params.account_address = None
    /\ http_response = returned
    /\ returned.kind = "json_object"

(***************************************************************************)
(* C8                                                                      *)
(***************************************************************************)
IsEventsArray(resp) == resp.kind = "json_object" /\ resp.asset_events.kind = "array"
InOrder(events, items) ==
    /\ Len(events) = Len(items)
    /\ \A i \in 1..Len(items) : events[i].event = items[i].id
ParseStep == parsed' # parsed \/ parses' # parses

\* C8 as stated: parsing yields one record per element of the asset_events
\* array of the retained response, in the same order; if the key is absent
\* or its value is not an array, parsing fails and returns no events.
C8_AsStated ==
    [][ParseStep =>
         /\ IsEventsArray(http_response)
               => (parsed'.exc = "ok"
                   /\ InOrder(parsed'.events, http_response.asset_events.items))
         /\ ~IsEventsArray(http_response)
               => (parsed'.exc # "ok" /\ parsed'.events = <<>>)
    ]_vars

\* C8 amended: parsing yields one record per element of the asset_events
\* array, in the same order; it fails, returning no events, if no response
\* is retained, the body is not a JSON object, the key is absent, or the
\* value cannot be iterated (null, a number).  A value that is an empty
\* object or an empty string is not rejected: parsing returns an empty
\* list.  A failed parse never returns a partial list.
C8_ParsedInOrder ==
    [][ParseStep =>
         /\ IsEventsArray(http_response)
               => (parsed'.exc = "ok"
                   /\ InOrder(parsed'.events, http_response.asset_events.items))
         /\ (http_response.kind # "json_object"
               \/ http_response.asset_events.kind \in {"null", "number"})
               => (parsed'.exc # "ok" /\ parsed'.events = <<>>)
         /\ (http_response.kind = "json_object"
               /\ http_response.asset_events.kind \in {"object", "string"}
               /\ http_response.asset_events.items = <<>>)
               => (parsed'.exc = "ok" /\ parsed'.events = <<>>)
         /\ parsed'.exc # "ok" => parsed'.events = <<>>
    ]_vars

C8_Witness ==
    /\ parses > 0
    /\ parsed.exc = "ok"
    /\ IsEventsArray(http_response)
    /\ parsed.events = <<[event |-> "ev2"], [event |-> "ev1"]>>
    /\ InOrder(parsed.events, http_response.asset_events.items)

(***************************************************************************)
(* C10                                                                     *)
(***************************************************************************)
\* C10 as stated: over any sequence of operations on one instance at most
\* one GET is issued, the response is parsed at most once, and no parse
\* happens before a request has been issued.
C10_AsStated ==
    /\ Len(http_log) <= 1
    /\ parses <= 1
    /\ parses > 0 => Len(http_log) > 0

\* C10 amended: a parse succeeds only after a request has been issued and
\* answered (with no response retained the read raises AttributeError); the
\* instance does not limit the number of requests or of parses: every
\* invocation issues one more GET and every read parses the retained
\* response again.
C10_ParseAfterRequest ==
    /\ (parses > 0 \/ parsed.exc = "ok") => (Len(http_log) > 0 /\ http_response # Unset)
    /\ (http_response = Unset /\ parsed.exc # "none") => parsed.exc = "AttributeError"
    /\ Len(http_log) = invocations

C10_Witness ==
    /\ Len(http_log) = 2
    /\ parses = 2
    /\ parsed.exc = "ok"

====
